---- MODULE Spec2Model ----
(***************************************************************************)
(* Model of adb_loader's CRUD workload: the Topology Reconciler            *)
(* (crud.rs, initialize_database_and_collections), the Load Scheduler      *)
(* (crud.rs, insert_documents) and the Cluster Gateway (arangodb.rs),      *)
(* running against one ArangoDB cluster.                                   *)
(*                                                                         *)
(* Every Gateway call is one HTTP exchange.  The cluster answers it either *)
(* truthfully (the answer its state dictates, with the call's effect) or   *)
(* with a fault (a transport failure or a 5xx status, without effect).     *)
(***************************************************************************)
EXTENDS Integers, Sequences, FiniteSets, TLC

\* ------------------------------------------------------------- bounds
MaxCollections == 2
MaxConcurrency == 2
MaxBatches == 2
MaxDocuments == 3000
MaxCalls == 2
MaxAttributes == 5

\* ------------------------------------------------- program constants
BATCH_SIZE == 1000

Min(a, b) == IF a <= b THEN a ELSE b

\* ------------------------------------------------------------- names
Digit == <<"0", "1", "2", "3", "4", "5", "6", "7", "8", "9">>

\* format!("{}", n) for an unsigned integer
RECURSIVE Decimal(_)
Decimal(n) ==
    IF n < 10 THEN Digit[n + 1]
    ELSE Decimal(n \div 10) \o Digit[(n % 10) + 1]

\* format!("{}{}", db_config.prefix, "crud")
db_name(prefix) == prefix \o "crud"

\* format!("c{}", i)
coll_name(i) == "c" \o Decimal(i)

\* mutant: the key is the position of the document in its batch
DocKeyInBatch(key) == "K" \o Decimal(((key - 1) % 1000) + 1)

\* format!("K{}", key)
doc_key(key) == "K" \o Decimal(key)

\* --------------------------------------------------------- configuration
Prefixes == {"t_"}

\* no document, one short batch, and MaxBatches batches, the last one short
DocumentCounts ==
    {0, 10, (MaxBatches - 1) * BATCH_SIZE + BATCH_SIZE \div 2}

CrudConfig ==
    [prefix : Prefixes,
     number_of_collections : 0..MaxCollections,
     number_of_documents : DocumentCounts,
     drop_first : BOOLEAN,
     insert_concurrency : 0..MaxConcurrency]

\* ------------------------------------------------------------ documents
\* mutant: the subtraction is not saturating
SubUnchecked(a, b) == a - b

\* u32::saturating_sub
saturating_sub(a, b) == IF a < b THEN 0 ELSE a - b

\* format!("a{}", i)
attr_name(k) == "a" \o Decimal(k)

\* Alphanumeric.sample_string(&mut rng(), length): a string of random
\* characters, represented by its length
generate_random_ascii(length) == length

\* the thread panics: attempt to divide by zero
DivideByZero ==
    [panic |-> TRUE, key |-> "", fixed |-> {}, attrs |-> [a \in {} |-> 0]]

\* A document is its _key, the names of its fields of random value (number,
\* bool) and, for each string attribute, the length of its random value.
Document(key, attrs) ==
    [panic |-> FALSE, key |-> key, fixed |-> {"_key", "number", "bool"},
     attrs |-> attrs]

generate_document(key, target_size, num_attributes) ==
    LET remaining_size == saturating_sub(target_size, 50) IN
    IF num_attributes = 0 THEN DivideByZero
    ELSE LET size_per_attr == remaining_size \div num_attributes IN
         Document(doc_key(key),
                  [a \in {attr_name(k) : k \in 1..num_attributes} |->
                      generate_random_ascii(size_per_attr)])

\* ------------------------------------------------------ 32-bit unsigned
\* A u32 at its full width is a pair of 16-bit limbs <<high, low>>.
Limb == 65536

U32Max == <<Limb - 1, Limb - 1>>

\* the u32 of a number below 2^31
U32(n) == <<n \div Limb, n % Limb>>

\* the number of a u32 below 2^31
Number(a) == a[1] * Limb + a[2]

\* a <= b
u32_le(a, b) == a[1] < b[1] \/ (a[1] = b[1] /\ a[2] <= b[2])

\* Ord::min
u32_min(a, b) == IF u32_le(a, b) THEN a ELSE b

\* u32::overflowing_add: the wrapped sum, and whether it overflowed
overflowing_add(a, b) ==
    LET low == a[2] + b[2]
        high == a[1] + b[1] + low \div Limb
    IN  [val |-> <<high % Limb, low % Limb>>, overflow |-> high >= Limb]

\* u32::overflowing_sub: the wrapped difference, and whether it overflowed
overflowing_sub(a, b) ==
    LET borrow == IF a[2] < b[2] THEN 1 ELSE 0
        low == a[2] + borrow * Limb - b[2]
        high == a[1] - b[1] - borrow
    IN  [val |-> <<(high + Limb) % Limb, low>>, overflow |-> high < 0]

\* n % 1000 for a u32
u32_rem_batch(a) == ((a[1] * (Limb % 1000)) + a[2]) % 1000

\* the thread panics: attempt to add (subtract) with overflow
ArithmeticOverflow == [panic |-> TRUE, val |-> <<0, 0>>]

\* a + b - c as the build computes it: with overflow checks the thread
\* panics on an overflow, without them the value wraps
add_sub(a, b, c, overflow_checks) ==
    LET sum == overflowing_add(a, b)
        diff == overflowing_sub(sum.val, c)
    IN  IF overflow_checks /\ (sum.overflow \/ diff.overflow)
        THEN ArithmeticOverflow
        ELSE [panic |-> FALSE, val |-> diff.val]

\* let end = (start + BATCH_SIZE - 1).min(num_documents), on u32
batch_end_u32(start, num_documents, overflow_checks) ==
    LET e == add_sub(start, U32(BATCH_SIZE), U32(1), overflow_checks) IN
    IF e.panic THEN ArithmeticOverflow
    ELSE [panic |-> FALSE, val |-> u32_min(e.val, num_documents)]

\* ------------------------------------------------------------- batches
\* mutant: the end of the batch is not capped by the document count
BatchEndNoMin(start, num_documents) == start + BATCH_SIZE - 1

\* let end = (start + BATCH_SIZE - 1).min(num_documents)
batch_end(start, num_documents) ==
    Min(start + BATCH_SIZE - 1, num_documents)

\* (1..=num_documents).step_by(BATCH_SIZE).map(|start| (start, end)),
\* the items the iterator yields from `start` on
RECURSIVE batches_from(_, _)
batches_from(start, num_documents) ==
    IF start > num_documents THEN <<>>
    ELSE <<<<start, batch_end(start, num_documents)>>>>
             \o batches_from(start + BATCH_SIZE, num_documents)

batches(num_documents) == batches_from(1, num_documents)

Range(s) == {s[k] : k \in DOMAIN s}

\* ------------------------------------------------------------- cluster
\* A cluster maps each database name to its collections, and each
\* collection name to the batches (ranges of sequence indices) stored in it.
NoCollections == [c \in {} |-> {}]
EmptyCluster == [d \in {} |-> NoCollections]

HasDatabase(c, db) == db \in DOMAIN c
HasCollection(c, db, coll) == HasDatabase(c, db) /\ coll \in DOMAIN c[db]

\* mutant: the document loop leaves out batch_end
BatchIndicesExclusive(batch) == batch[1]..(batch[2] - 1)

\* for i in batch_start..=batch_end: the sequence indices of the documents
\* one batch request carries
batch_indices(batch) == batch[1]..batch[2]

\* the sequence indices of the documents a collection holds
StoredIndices(c, db, coll) == UNION {batch_indices(r) : r \in c[db][coll]}

\* ------------------------------------------------------- HTTP responses
\* A response is what the client gets for one request: no response at all
\* (send().await fails), a status whose body cannot be read (text().await
\* fails), or a status and its body.
Transport ==
    [transport |-> TRUE, status |-> 0, body_error |-> FALSE, text |-> ""]
\* no request has been answered yet
NoResponse ==
    [transport |-> FALSE, status |-> 0, body_error |-> FALSE, text |-> ""]
Http(status, text) ==
    [transport |-> FALSE, status |-> status, body_error |-> FALSE, text |-> text]
BodyFailure(status) ==
    [transport |-> FALSE, status |-> status, body_error |-> TRUE, text |-> ""]

\* StatusCode::is_success
is_success(resp) == resp.status >= 200 /\ resp.status < 300

\* str::contains
contains(text, pat) ==
    \E k \in 1..(Len(text) - Len(pat) + 1) :
        SubSeq(text, k, k + Len(pat) - 1) = pat

\* error_text.contains("duplicate")
contains_duplicate(text) == contains(text, "duplicate")

\* Answers without effect that any request may get instead of the truthful one
FaultResponses == {Transport, Http(500, "internal error")}

\* what the cluster answers truthfully, and the cluster afterwards
Answer(resp, after) == [resp |-> resp, after |-> after]

ServerDatabaseCurrent(c, db) ==
    IF HasDatabase(c, db) THEN Answer(Http(200, ""), c)
    ELSE Answer(Http(404, "database not found"), c)

ServerGetCollection(c, db, coll) ==
    IF HasCollection(c, db, coll) THEN Answer(Http(200, ""), c)
    ELSE Answer(Http(404, "collection or view not found"), c)

ServerCreateDatabase(c, db) ==
    IF db = "" THEN Answer(Http(400, "database name invalid"), c)
    ELSE IF HasDatabase(c, db) THEN Answer(Http(409, "duplicate name"), c)
    ELSE Answer(Http(201, ""),
                [d \in DOMAIN c \cup {db} |->
                    IF d = db THEN NoCollections ELSE c[d]])

ServerDropDatabase(c, db) ==
    IF HasDatabase(c, db)
    THEN Answer(Http(200, ""), [d \in DOMAIN c \ {db} |-> c[d]])
    ELSE Answer(Http(404, "database not found"), c)

ServerCreateCollection(c, db, coll) ==
    IF ~HasDatabase(c, db) THEN Answer(Http(404, "database not found"), c)
    ELSE IF HasCollection(c, db, coll) THEN Answer(Http(409, "duplicate name"), c)
    ELSE Answer(Http(200, ""),
                [c EXCEPT ![db] =
                    [x \in DOMAIN c[db] \cup {coll} |->
                        IF x = coll THEN {} ELSE c[db][x]]])

ServerInsertDocuments(c, db, coll, batch) ==
    IF ~HasCollection(c, db, coll)
    THEN Answer(Http(404, "collection or view not found"), c)
    ELSE Answer(Http(202, ""),
                [c EXCEPT ![db][coll] = c[db][coll] \cup {batch}])

\* every way the cluster may answer a request: truthfully, with the call's
\* effect, or with a fault that leaves the cluster as it was
Answers(c, truthful) ==
    {truthful} \cup {Answer(f, c) : f \in FaultResponses}

\* -------------------------------------------------------------- results
NoError == [kind |-> "", name |-> "", status |-> 0, text |-> "", batch |-> 0]
Ok(v) == [ok |-> TRUE, val |-> v, err |-> NoError]
OkUnit == Ok(TRUE)
Err(e) == [ok |-> FALSE, val |-> FALSE, err |-> e]

RequestError == [NoError EXCEPT !.kind = "RequestError"]
DatabaseExists(name) ==
    [NoError EXCEPT !.kind = "DatabaseExists", !.name = name]
DatabaseNotFound(name) ==
    [NoError EXCEPT !.kind = "DatabaseNotFound", !.name = name]
CollectionExists(name) ==
    [NoError EXCEPT !.kind = "CollectionExists", !.name = name]
InvalidResponse(status, text) ==
    [NoError EXCEPT !.kind = "InvalidResponse", !.status = status, !.text = text]
\* anyhow!("Failed to insert documents: {} - {}", ...), or the transport
\* error of the batch's request; `batch` is the identity of the failed task
InsertError(e, batch) == [e EXCEPT !.batch = batch[1]]

\* ------------------------------------------------------ Cluster Gateway
database_exists(resp) ==
    IF resp.transport THEN Err(RequestError) ELSE Ok(is_success(resp))

\* mutant: only 404 means absent, any other non-success status is an error
CollectionExistsStrict(resp) ==
    IF resp.transport THEN Err(RequestError)
    ELSE IF is_success(resp) THEN Ok(TRUE)
    ELSE IF resp.status = 404 THEN Ok(FALSE)
    ELSE Err(InvalidResponse(resp.status, resp.text))

collection_exists(resp) ==
    IF resp.transport THEN Err(RequestError) ELSE Ok(is_success(resp))

\* mutant: every 409 means the database exists, whatever the body says
CreateDatabaseAny409(resp, name) ==
    IF resp.transport THEN Err(RequestError)
    ELSE IF is_success(resp) THEN OkUnit
    ELSE IF resp.body_error THEN Err(RequestError)
    ELSE IF resp.status = 409 THEN Err(DatabaseExists(name))
    ELSE Err(InvalidResponse(resp.status, resp.text))

create_database(resp, name) ==
    IF resp.transport THEN Err(RequestError)
    ELSE IF is_success(resp) THEN OkUnit
    ELSE IF resp.body_error THEN Err(RequestError)
    ELSE IF resp.status = 409 /\ contains_duplicate(resp.text)
         THEN Err(DatabaseExists(name))
    ELSE Err(InvalidResponse(resp.status, resp.text))

\* mutant: a 404 is not told apart from the other failures
DropDatabaseNo404(resp, name) ==
    IF resp.transport THEN Err(RequestError)
    ELSE IF is_success(resp) THEN OkUnit
    ELSE IF resp.body_error THEN Err(RequestError)
    ELSE Err(InvalidResponse(resp.status, resp.text))

drop_database(resp, name) ==
    IF resp.transport THEN Err(RequestError)
    ELSE IF is_success(resp) THEN OkUnit
    ELSE IF resp.body_error THEN Err(RequestError)
    ELSE IF resp.status = 404 THEN Err(DatabaseNotFound(name))
    ELSE Err(InvalidResponse(resp.status, resp.text))

create_collection(resp, name) ==
    IF resp.transport THEN Err(RequestError)
    ELSE IF is_success(resp) THEN OkUnit
    ELSE IF resp.body_error THEN Err(RequestError)
    ELSE IF resp.status = 409 /\ contains_duplicate(resp.text)
         THEN Err(CollectionExists(name))
    ELSE Err(InvalidResponse(resp.status, resp.text))

\* the async block of one batch, from the response on
insert_batch(resp, batch) ==
    IF resp.transport THEN Err(InsertError(RequestError, batch))
    ELSE IF is_success(resp) THEN OkUnit
    ELSE IF resp.body_error THEN Err(InsertError(RequestError, batch))
    ELSE Err(InsertError(InvalidResponse(resp.status, resp.text), batch))

\* mutant: the failure of the lowest sequence index is reported
CollectLowestIndex(rs) ==
    IF \E k \in DOMAIN rs : ~rs[k].ok
    THEN rs[CHOOSE k \in DOMAIN rs :
                ~rs[k].ok /\ \A j \in DOMAIN rs :
                    ~rs[j].ok => rs[k].err.batch <= rs[j].err.batch]
    ELSE OkUnit

\* results.into_iter().collect::<anyhow::Result<Vec<()>>>()
collect_results(rs) ==
    IF \E k \in DOMAIN rs : ~rs[k].ok
    THEN rs[CHOOSE k \in DOMAIN rs :
                ~rs[k].ok /\ \A j \in DOMAIN rs : ~rs[j].ok => k <= j]
    ELSE OkUnit

\* the local state of a reconciler: where it stands, its scheduler, its calls
Reconciler(id, p, k, r, ns, sd, ip, rs, cs, resp) ==
    [id |-> id, pc |-> p, i |-> k, result |-> r, next_start |-> ns,
     stream_done |-> sd, in_progress |-> ip, results |-> rs, calls |-> cs,
     response |-> resp]

\* a reconciler at the entry of initialize_database_and_collections
NewReconciler(id) ==
    Reconciler(id, "database_exists", 0, OkUnit, 1, FALSE, {}, <<>>, <<>>,
               NoResponse)

\* there is no second process
NoOther == Reconciler(0, "none", 0, OkUnit, 1, FALSE, {}, <<>>, <<>>, NoResponse)

\* no call of generate_document on its own yet
NotGenerated ==
    [called |-> FALSE, key |-> 0, target_size |-> 0, num_attributes |-> 0,
     doc |-> Document("", [a \in {} |-> 0])]

\* ---------------------------------------------------------------- state
VARIABLES
    cfg,          \* the configuration of the run
    cluster,      \* the cluster's databases, collections and documents
    cluster0,     \* the cluster as the run found it
    pc,           \* where initialize_database_and_collections stands
    i,            \* the index of the collection loop it is in
    result,       \* what initialize_database_and_collections returned
    next_start,   \* the start the batch iterator yields next
    stream_done,  \* the batch stream has answered None
    in_progress,  \* the batches whose request is outstanding
    results,      \* the batch results, in the order they were collected
    calls,        \* the Gateway calls of the run, in the order issued
    response,     \* the HTTP response the most recent request got
    generated,    \* the most recent call of generate_document on its own
    host,         \* where the main thread of the process stands
    other         \* the reconciler of a second process, while this one runs

vars ==
    <<cfg, cluster, cluster0, pc, i, result,
      next_start, stream_done, in_progress, results, calls, response,
      generated, host, other>>

sched == <<next_start, stream_done, in_progress, results>>

N == cfg.number_of_collections
D == cfg.number_of_documents
DbName == db_name(cfg.prefix)

NoBatch == <<0, 0>>
GatewayCall(op, db, coll, batch, res) ==
    [op |-> op, db |-> db, coll |-> coll, batch |-> batch, res |-> res]
Call(op, coll, batch, res) == GatewayCall(op, DbName, coll, batch, res)
ResTag(r) ==
    IF ~r.ok THEN "err" ELSE IF r.val THEN "true" ELSE "false"

\* the clusters a run may find: no database, or the database with any of
\* the collections, each holding the population of an earlier run
InitialClusters(c) ==
    {EmptyCluster} \cup
    {[d \in {db_name(c.prefix)} |->
        [x \in S |-> Range(batches(c.number_of_documents))]] :
        S \in SUBSET {coll_name(k) : k \in 1..MaxCollections}}

Init ==
    /\ cfg \in CrudConfig
    /\ cluster \in InitialClusters(cfg)
    /\ cluster0 = cluster
    /\ pc = "database_exists"
    /\ i = 0
    /\ result = OkUnit
    /\ next_start = 1
    /\ stream_done = FALSE
    /\ in_progress = {}
    /\ results = <<>>
    /\ calls = <<>>
    /\ response = NoResponse
    /\ generated = NotGenerated
    /\ host = "loop"
    /\ other = NoOther

\* --------------------------------------------------- Topology Reconciler
Goto(p, k) == pc' = p /\ i' = k /\ result' = result
Return(r) == pc' = "returned" /\ i' = 0 /\ result' = r

\* mutant: for i in 1..number_of_collections, the last collection unprobed
ProbeLoopExclusive(k) ==
    IF k >= N THEN Return(Ok(TRUE)) ELSE Goto("collection_exists", k)

\* for i in 1..=number_of_collections { collection_exists ... }, at index k
ProbeLoop(k) ==
    IF k > N THEN Return(Ok(TRUE)) ELSE Goto("collection_exists", k)

\* mutant: for i in 1..number_of_collections, the last collection uncreated
CreateLoopExclusive(k) ==
    IF k >= N THEN Return(Ok(FALSE)) ELSE Goto("create_collection", k)

\* for i in 1..=number_of_collections { create_collection ... }, at index k
CreateLoop(k) ==
    IF k > N THEN Return(Ok(FALSE)) ELSE Goto("create_collection", k)

\* mutant: drop_first is not looked at, the collections are probed anyway
OnDatabaseExistsProbing(exists) ==
    IF exists THEN ProbeLoop(1) ELSE Goto("create_database", 0)

\* mutant: the test of the probe's answer is inverted
OnDatabaseExistsInverted(exists) ==
    IF ~exists
    THEN IF ~cfg.drop_first THEN ProbeLoop(1) ELSE Goto("drop_database", 0)
    ELSE Goto("create_database", 0)

\* if database_exists(..).await? { if !crud_config.drop_first { .. } .. }
OnDatabaseExists(exists) ==
    IF exists
    THEN IF ~cfg.drop_first THEN ProbeLoop(1) ELSE Goto("drop_database", 0)
    ELSE Goto("create_database", 0)

\* mutant: a missing collection is created in the database as it is
OnCollectionExistsPatch(exists) ==
    IF ~exists THEN Goto("create_collection", i) ELSE ProbeLoop(i + 1)

\* if !collection_exists(..).await? { all_collections_exist = false; break; }
OnCollectionExists(exists) ==
    IF ~exists THEN Goto("drop_database", 0) ELSE ProbeLoop(i + 1)

DatabaseExistsStep ==
    /\ pc = "database_exists"
    /\ \E a \in Answers(cluster, ServerDatabaseCurrent(cluster, DbName)) :
        LET r == database_exists(a.resp) IN
        /\ cluster' = a.after
        /\ response' = a.resp
        /\ calls' = Append(calls, Call("database_exists", "", NoBatch, ResTag(r)))
        /\ IF ~r.ok THEN Return(r) ELSE OnDatabaseExists(r.val)
    /\ UNCHANGED <<other, host, generated, cfg, cluster0, sched>>

CollectionExistsStep ==
    /\ pc = "collection_exists"
    /\ \E a \in Answers(cluster,
                        ServerGetCollection(cluster, DbName, coll_name(i))) :
        LET r == collection_exists(a.resp) IN
        /\ cluster' = a.after
        /\ response' = a.resp
        /\ calls' = Append(calls,
                           Call("collection_exists", coll_name(i), NoBatch, ResTag(r)))
        /\ IF ~r.ok THEN Return(r) ELSE OnCollectionExists(r.val)
    /\ UNCHANGED <<other, host, generated, cfg, cluster0, sched>>

DropDatabaseStep ==
    /\ pc = "drop_database"
    /\ \E a \in Answers(cluster, ServerDropDatabase(cluster, DbName)) :
        LET r == drop_database(a.resp, DbName) IN
        /\ cluster' = a.after
        /\ response' = a.resp
        /\ calls' = Append(calls, Call("drop_database", "", NoBatch, ResTag(r)))
        /\ IF ~r.ok THEN Return(r) ELSE Goto("create_database", 0)
    /\ UNCHANGED <<other, host, generated, cfg, cluster0, sched>>

CreateDatabaseStep ==
    /\ pc = "create_database"
    /\ \E a \in Answers(cluster, ServerCreateDatabase(cluster, DbName)) :
        LET r == create_database(a.resp, DbName) IN
        /\ cluster' = a.after
        /\ response' = a.resp
        /\ calls' = Append(calls, Call("create_database", "", NoBatch, ResTag(r)))
        /\ IF ~r.ok THEN Return(r) ELSE CreateLoop(1)
    /\ UNCHANGED <<other, host, generated, cfg, cluster0, sched>>

\* create_collection(...).await?, then insert_documents is entered
CreateCollectionStep ==
    /\ pc = "create_collection"
    /\ \E a \in Answers(cluster,
                        ServerCreateCollection(cluster, DbName, coll_name(i))) :
        LET r == create_collection(a.resp, coll_name(i)) IN
        /\ cluster' = a.after
        /\ response' = a.resp
        /\ calls' = Append(calls,
                           Call("create_collection", coll_name(i), NoBatch, ResTag(r)))
        /\ IF ~r.ok THEN Return(r) ELSE Goto("insert_documents", i)
    /\ next_start' = 1
    /\ stream_done' = FALSE
    /\ in_progress' = {}
    /\ results' = <<>>
    /\ UNCHANGED <<other, host, generated, cfg, cluster0>>

\* -------------------------------------------------------- Load Scheduler
\* mutant: every batch is started at once, whatever insert_concurrency
StartBatchUnbounded ==
    /\ pc = "insert_documents"
    /\ ~stream_done
    /\ next_start <= D
    /\ LET batch == <<next_start, batch_end(next_start, D)>> IN
        /\ in_progress' = in_progress \cup {batch}
        /\ calls' = Append(calls,
                           Call("insert_documents", coll_name(i), batch, "sent"))
    /\ next_start' = next_start + BATCH_SIZE
    /\ UNCHANGED <<other, host, generated, cfg, cluster, cluster0, pc, i, result, stream_done, results,
                   response>>

\* buffer_unordered's fill loop, one iteration: the stream yields a batch;
\* its task generates the documents and sends the request
StartBatch ==
    /\ pc = "insert_documents"
    /\ Cardinality(in_progress) < cfg.insert_concurrency
    /\ ~stream_done
    /\ next_start <= D
    /\ LET batch == <<next_start, batch_end(next_start, D)>> IN
        /\ in_progress' = in_progress \cup {batch}
        /\ calls' = Append(calls,
                           Call("insert_documents", coll_name(i), batch, "sent"))
    /\ next_start' = next_start + BATCH_SIZE
    /\ UNCHANGED <<other, host, generated, cfg, cluster, cluster0, pc, i, result, stream_done, results,
                   response>>

\* buffer_unordered's fill loop, last iteration: the stream yields None
StreamEnd ==
    /\ pc = "insert_documents"
    /\ Cardinality(in_progress) < cfg.insert_concurrency
    /\ ~stream_done
    /\ next_start > D
    /\ stream_done' = TRUE
    /\ UNCHANGED <<other, host, generated, cfg, cluster, cluster0, pc, i, result,
                   next_start, in_progress, results, calls, response>>

\* one outstanding request is answered and its result collected
CompleteBatch ==
    /\ pc = "insert_documents"
    /\ Cardinality(in_progress) = cfg.insert_concurrency \/ stream_done
    /\ \E batch \in in_progress :
        \E a \in Answers(cluster,
                         ServerInsertDocuments(cluster, DbName, coll_name(i), batch)) :
            /\ cluster' = a.after
            /\ response' = a.resp
            /\ results' = Append(results, insert_batch(a.resp, batch))
            /\ in_progress' = in_progress \ {batch}
    /\ UNCHANGED <<other, host, generated, cfg, cluster0, pc, i, result, next_start, stream_done, calls>>

\* mutant: insert_documents returns as soon as no request is outstanding
FinishInsertNoDrain ==
    /\ pc = "insert_documents"
    /\ in_progress = {}
    /\ LET r == collect_results(results) IN
        IF ~r.ok THEN Return(r) ELSE CreateLoop(i + 1)
    /\ UNCHANGED <<other, host, generated, cfg, cluster, cluster0, sched, calls, response>>

\* mutant: insert_documents returns at the first failure collected
FinishInsertFailFast ==
    /\ pc = "insert_documents"
    /\ \/ in_progress = {} /\ stream_done
       \/ \E k \in DOMAIN results : ~results[k].ok
    /\ LET r == collect_results(results) IN
        IF ~r.ok THEN Return(r) ELSE CreateLoop(i + 1)
    /\ UNCHANGED <<other, host, generated, cfg, cluster, cluster0, sched, calls, response>>

\* mutant: a failed population is passed over, the next collection is created
FinishInsertIgnoreError ==
    /\ pc = "insert_documents"
    /\ in_progress = {}
    /\ stream_done
    /\ CreateLoop(i + 1)
    /\ UNCHANGED <<other, host, generated, cfg, cluster, cluster0, sched, calls, response>>

\* mutant: a failed population is cleaned up, the database is dropped
FinishInsertCleanup ==
    /\ pc = "insert_documents"
    /\ in_progress = {}
    /\ stream_done
    /\ LET r == collect_results(results) IN
        IF ~r.ok
        THEN /\ Return(r)
             /\ cluster' = ServerDropDatabase(cluster, DbName).after
             /\ calls' = Append(calls, Call("drop_database", "", NoBatch, "true"))
        ELSE /\ CreateLoop(i + 1)
             /\ UNCHANGED <<cluster, calls>>
    /\ UNCHANGED <<other, host, generated, cfg, cluster0, sched, response>>

\* the stream is drained: collect the results, `?`, next collection
FinishInsert ==
    /\ pc = "insert_documents"
    /\ in_progress = {}
    /\ stream_done
    /\ LET r == collect_results(results) IN
        IF ~r.ok THEN Return(r) ELSE CreateLoop(i + 1)
    /\ UNCHANGED <<other, host, generated, cfg, cluster, cluster0, sched, calls, response>>

Next ==
    \/ DatabaseExistsStep
    \/ CollectionExistsStep
    \/ DropDatabaseStep
    \/ CreateDatabaseStep
    \/ CreateCollectionStep
    \/ StartBatch
    \/ StreamEnd
    \/ CompleteBatch
    \/ FinishInsert

Spec == Init /\ [][Next]_vars

\* ------------------------------------------------- the workload's lifecycle
\* main has spawned the workload's thread and sleeps in its loop; the thread
\* runs run_async: the reconciliation, then the idle loop, or the way out
\* with the error, which the thread's closure logs before the thread ends.

\* mutant: the error of the workload ends the process
RunFailedExits ==
    /\ pc = "returned"
    /\ ~result.ok
    /\ pc' = "ended"
    /\ host' = "exited"
    /\ UNCHANGED <<other, generated, cfg, cluster, cluster0, i, result, sched,
                   calls, response>>

\* initialize_database_and_collections(..).await? returns the error:
\* run_async and run return it, the closure logs it, the thread ends
RunFailed ==
    /\ pc = "returned"
    /\ ~result.ok
    /\ pc' = "ended"
    /\ UNCHANGED <<other, host, generated, cfg, cluster, cluster0, i, result, sched,
                   calls, response>>

\* the reconciliation returned Ok: run_async logs it and enters its loop
RunIdle ==
    /\ pc = "returned"
    /\ result.ok
    /\ pc' = "idle"
    /\ UNCHANGED <<other, host, generated, cfg, cluster, cluster0, i, result, sched,
                   calls, response>>

\* loop { tokio::time::sleep(1s).await }, one iteration
IdleLoop ==
    /\ pc = "idle"
    /\ UNCHANGED vars

\* loop { thread::sleep(1s) } of main, one iteration
MainLoop ==
    /\ host = "loop"
    /\ UNCHANGED vars

NextWorkload ==
    \/ Next
    \/ RunFailed
    \/ RunIdle
    \/ IdleLoop
    \/ MainLoop

SpecWorkload == Init /\ [][NextWorkload]_vars

\* ------------------------------------------- two processes, one database
\* Two processes run the workload with the same configuration against the
\* same cluster.  The variables of the reconciler are those of the process
\* that takes the next step, `other` holds the other process's; a context
\* switch exchanges them, so the Gateway calls of the two interleave in
\* every order.  Nothing in the code orders them: no lock is taken.
TwoConfig ==
    [prefix : Prefixes,
     number_of_collections : {1},
     number_of_documents : {10},
     drop_first : BOOLEAN,
     insert_concurrency : {1}]

InitTwo ==
    /\ cfg \in TwoConfig
    /\ cluster \in InitialClusters(cfg)
    /\ cluster0 = cluster
    /\ pc = "database_exists"
    /\ i = 0
    /\ result = OkUnit
    /\ next_start = 1
    /\ stream_done = FALSE
    /\ in_progress = {}
    /\ results = <<>>
    /\ calls = <<>>
    /\ response = NoResponse
    /\ generated = NotGenerated
    /\ host = "loop"
    /\ other = NewReconciler(2)

ContextSwitch ==
    /\ other.id # 0
    /\ pc' = other.pc
    /\ i' = other.i
    /\ result' = other.result
    /\ next_start' = other.next_start
    /\ stream_done' = other.stream_done
    /\ in_progress' = other.in_progress
    /\ results' = other.results
    /\ calls' = other.calls
    /\ response' = other.response
    /\ other' = Reconciler(3 - other.id, pc, i, result, next_start, stream_done,
                           in_progress, results, calls, response)
    /\ UNCHANGED <<cfg, cluster, cluster0, generated, host>>

NextTwo ==
    \/ Next
    \/ ContextSwitch

SpecTwo == InitTwo /\ [][NextTwo]_vars

\* ------------------------------------------------- a history of runs
\* The program is run again and again with the same configuration
\* (drop_first = false) against the cluster the earlier runs left behind,
\* starting from an empty cluster.  A run ends when
\* initialize_database_and_collections has returned, with Ok or with the
\* error of the Gateway call that failed.
HistoryConfig ==
    [prefix : Prefixes,
     number_of_collections : 1..MaxCollections,
     number_of_documents : DocumentCounts,
     drop_first : {FALSE},
     insert_concurrency : 1..MaxConcurrency]

InitHistory ==
    /\ cfg \in HistoryConfig
    /\ cluster = EmptyCluster
    /\ cluster0 = EmptyCluster
    /\ pc = "database_exists"
    /\ i = 0
    /\ result = OkUnit
    /\ next_start = 1
    /\ stream_done = FALSE
    /\ in_progress = {}
    /\ results = <<>>
    /\ calls = <<>>
    /\ response = NoResponse
    /\ generated = NotGenerated
    /\ host = "loop"
    /\ other = NoOther

\* the program is started again: a new run finds the cluster as it is
NextRun ==
    /\ pc = "returned"
    /\ cluster0' = cluster
    /\ pc' = "database_exists"
    /\ i' = 0
    /\ result' = OkUnit
    /\ next_start' = 1
    /\ stream_done' = FALSE
    /\ in_progress' = {}
    /\ results' = <<>>
    /\ calls' = <<>>
    /\ response' = NoResponse
    /\ UNCHANGED <<other, host, generated, cfg, cluster>>

NextHistory ==
    \/ Next
    \/ NextRun

SpecHistory == InitHistory /\ [][NextHistory]_vars

\* ----------------------------------------------- the batch partition alone
\* insert_documents as a run on a fresh cluster enters it for c1, for every
\* document count up to MaxDocuments, with room for every batch in the pool
PartitionConfig ==
    [prefix : Prefixes,
     number_of_collections : {1},
     number_of_documents : 0..MaxDocuments,
     drop_first : {FALSE},
     insert_concurrency : {MaxDocuments \div BATCH_SIZE + 1}]

InitPartition ==
    /\ cfg \in PartitionConfig
    /\ cluster0 = EmptyCluster
    /\ cluster =
          ServerCreateCollection(
              ServerCreateDatabase(EmptyCluster, DbName).after,
              DbName, coll_name(1)).after
    /\ pc = "insert_documents"
    /\ i = 1
    /\ result = OkUnit
    /\ next_start = 1
    /\ stream_done = FALSE
    /\ in_progress = {}
    /\ results = <<>>
    /\ calls = <<Call("database_exists", "", NoBatch, "false"),
                 Call("create_database", "", NoBatch, "true"),
                 Call("create_collection", coll_name(1), NoBatch, "true")>>
    /\ response =
          ServerCreateCollection(
              ServerCreateDatabase(EmptyCluster, DbName).after,
              DbName, coll_name(1)).resp
    /\ generated = NotGenerated
    /\ host = "loop"
    /\ other = NoOther

NextPartition == StartBatch \/ StreamEnd

SpecPartition == InitPartition /\ [][NextPartition]_vars

\* ------------------------------------------ the batch bounds at full width
\* The batch iterator of insert_documents on u32 values: document counts
\* within BATCH_SIZE of 2^32 - 1, and the small ones.  The iterator starts
\* at 1 and steps by BATCH_SIZE; here it stands at one of its last
\* MaxBatches items, which it has reached without any overflow (step_by
\* adds with a check).  A batch is <<start, end>>, each a u32.
WideDocumentCounts ==
    {U32(d) : d \in DocumentCounts} \cup
    {overflowing_sub(U32Max, U32(k)).val : k \in 0..BATCH_SIZE}

\* the last MaxBatches items of (1..=num_documents).step_by(BATCH_SIZE)
LastStarts(num_documents) ==
    IF num_documents = U32(0) THEN {U32(1)}
    ELSE {overflowing_sub(num_documents, U32(k)).val :
             k \in {j \in 0..(MaxBatches * BATCH_SIZE - 1) :
                       LET d == overflowing_sub(num_documents, U32(j)) IN
                       /\ ~d.overflow
                       /\ u32_le(U32(1), d.val)
                       /\ u32_rem_batch(d.val) = 1}}

WideConfig ==
    [prefix : Prefixes,
     number_of_collections : {1},
     number_of_documents : WideDocumentCounts,
     drop_first : {FALSE},
     insert_concurrency : {MaxBatches + 1}]

InitWide ==
    /\ cfg \in WideConfig
    /\ cluster0 = EmptyCluster
    /\ cluster =
          ServerCreateCollection(
              ServerCreateDatabase(EmptyCluster, DbName).after,
              DbName, coll_name(1)).after
    /\ pc = "insert_documents"
    /\ i = 1
    /\ result = OkUnit
    /\ next_start \in LastStarts(cfg.number_of_documents)
    /\ stream_done = FALSE
    /\ in_progress = {}
    /\ results = <<>>
    /\ calls = <<>>
    /\ response = NoResponse
    /\ generated = NotGenerated
    /\ host = "loop"
    /\ other = NoOther

\* the iterator yields its next start; the map closure computes the end,
\* in a build with overflow checks or in one without
WideBatch ==
    /\ pc = "insert_documents"
    /\ ~stream_done
    /\ u32_le(next_start, D)
    /\ \E overflow_checks \in BOOLEAN :
        LET end == batch_end_u32(next_start, D, overflow_checks)
            following == overflowing_add(next_start, U32(BATCH_SIZE))
        IN  IF end.panic
            THEN /\ pc' = "panicked"
                 /\ UNCHANGED <<next_start, stream_done, in_progress, calls>>
            ELSE /\ pc' = pc
                 /\ in_progress' = in_progress \cup {<<next_start, end.val>>}
                 /\ calls' = Append(calls,
                                    Call("insert_documents", coll_name(i),
                                         <<next_start, end.val>>, "sent"))
                 /\ IF following.overflow
                    THEN stream_done' = TRUE /\ next_start' = next_start
                    ELSE stream_done' = FALSE /\ next_start' = following.val
    /\ UNCHANGED <<other, host, generated, cfg, cluster, cluster0, i, result,
                   results, response>>

\* the iterator is past num_documents: it yields None
WideEnd ==
    /\ pc = "insert_documents"
    /\ ~stream_done
    /\ ~u32_le(next_start, D)
    /\ stream_done' = TRUE
    /\ UNCHANGED <<other, host, generated, cfg, cluster, cluster0, pc, i, result,
                   next_start, in_progress, results, calls, response>>

NextWide == WideBatch \/ WideEnd

SpecWide == InitWide /\ [][NextWide]_vars

\* ------------------------------------------------- one population alone
\* insert_documents as a run on a fresh cluster enters it for its only
\* collection, for every document count and concurrency of the configuration
InsertConfig ==
    [prefix : Prefixes,
     number_of_collections : {1},
     number_of_documents : DocumentCounts \cup {BATCH_SIZE, BATCH_SIZE + 1},
     drop_first : {FALSE},
     insert_concurrency : 0..MaxConcurrency]

InitInsert ==
    /\ cfg \in InsertConfig
    /\ cluster0 = EmptyCluster
    /\ cluster =
          ServerCreateCollection(
              ServerCreateDatabase(EmptyCluster, DbName).after,
              DbName, coll_name(1)).after
    /\ pc = "insert_documents"
    /\ i = 1
    /\ result = OkUnit
    /\ next_start = 1
    /\ stream_done = FALSE
    /\ in_progress = {}
    /\ results = <<>>
    /\ calls = <<Call("database_exists", "", NoBatch, "false"),
                 Call("create_database", "", NoBatch, "true"),
                 Call("create_collection", coll_name(1), NoBatch, "true")>>
    /\ response =
          ServerCreateCollection(
              ServerCreateDatabase(EmptyCluster, DbName).after,
              DbName, coll_name(1)).resp
    /\ generated = NotGenerated
    /\ host = "loop"
    /\ other = NoOther

NextInsert ==
    \/ StartBatch
    \/ StreamEnd
    \/ CompleteBatch
    \/ FinishInsert

SpecInsert == InitInsert /\ [][NextInsert]_vars

\* The runtime polls insert_documents whenever it can make progress, and
\* every request that was sent gets its response: no step of the scheduler
\* that stays possible is put off forever.
FairInsert ==
    /\ WF_vars(StartBatch)
    /\ WF_vars(StreamEnd)
    /\ WF_vars(CompleteBatch)
    /\ WF_vars(FinishInsert)

SpecInsertFair == SpecInsert /\ FairInsert

\* ------------------------------------- the Gateway functions called directly
\* The tests of arangodb.rs call the Gateway functions one after the other
\* against the cluster.  Here every function is called with every name of
\* the tests, in every order, up to MaxCalls calls, and the cluster answers
\* truthfully (the body read or lost) or with any failure without effect.
TestDatabases == {"test_db_creation"}
TestCollections == {"test_collection"}

\* create_test_config, with a CRUD configuration that plays no part
GatewayTestConfig ==
    [prefix |-> "test_",
     number_of_collections |-> 0,
     number_of_documents |-> 0,
     drop_first |-> FALSE,
     insert_concurrency |-> 0]

FaultStatuses == {400, 404, 409, 500}
FaultTexts == {"", "conflict", "a duplicate name"}

GatewayFaults ==
    {Transport}
        \cup {BodyFailure(st) : st \in FaultStatuses}
        \cup {Http(st, t) : st \in FaultStatuses, t \in FaultTexts}

GatewayAnswers(c, truthful) ==
    {truthful, Answer(BodyFailure(truthful.resp.status), truthful.after)}
        \cup {Answer(f, c) : f \in GatewayFaults}

GatewayTestClusters ==
    {EmptyCluster} \cup
    {[d \in TestDatabases |-> [x \in S |-> {}]] : S \in SUBSET TestCollections}

InitGateway ==
    /\ cfg = GatewayTestConfig
    /\ cluster \in GatewayTestClusters
    /\ cluster0 = cluster
    /\ pc = "test"
    /\ i = 0
    /\ result = OkUnit
    /\ next_start = 1
    /\ stream_done = FALSE
    /\ in_progress = {}
    /\ results = <<>>
    /\ calls = <<>>
    /\ response = NoResponse
    /\ generated = NotGenerated
    /\ host = "loop"
    /\ other = NoOther

\* the frame of one direct Gateway call: its answer, its result, the log
TestCall(op, db, coll, a, r) ==
    /\ Len(calls) < MaxCalls
    /\ pc = "test"
    /\ cluster' = a.after
    /\ response' = a.resp
    /\ result' = r
    /\ calls' = Append(calls, GatewayCall(op, db, coll, NoBatch, ResTag(r)))
    /\ UNCHANGED <<other, host, generated, cfg, cluster0, pc, i, sched>>

TestCreateDatabase ==
    \E db \in TestDatabases \cup {""} :
        \E a \in GatewayAnswers(cluster, ServerCreateDatabase(cluster, db)) :
            TestCall("create_database", db, "", a, create_database(a.resp, db))

TestDropDatabase ==
    \E db \in TestDatabases :
        \E a \in GatewayAnswers(cluster, ServerDropDatabase(cluster, db)) :
            TestCall("drop_database", db, "", a, drop_database(a.resp, db))

TestDatabaseExists ==
    \E db \in TestDatabases :
        \E a \in GatewayAnswers(cluster, ServerDatabaseCurrent(cluster, db)) :
            TestCall("database_exists", db, "", a, database_exists(a.resp))

TestCollectionExists ==
    \E db \in TestDatabases, coll \in TestCollections :
        \E a \in GatewayAnswers(cluster, ServerGetCollection(cluster, db, coll)) :
            TestCall("collection_exists", db, coll, a, collection_exists(a.resp))

TestCreateCollection ==
    \E db \in TestDatabases, coll \in TestCollections :
        \E a \in GatewayAnswers(cluster,
                                 ServerCreateCollection(cluster, db, coll)) :
            TestCall("create_collection", db, coll, a,
                     create_collection(a.resp, coll))

NextGateway ==
    \/ TestCreateDatabase
    \/ TestDropDatabase
    \/ TestDatabaseExists
    \/ TestCollectionExists
    \/ TestCreateCollection

SpecGateway == InitGateway /\ [][NextGateway]_vars

\* ------------------------------------------------ generate_document alone
\* generate_document called with every key, target size and attribute
\* count of the small sets below
DocumentKeys == {1, 10, 2500}
TargetSizes == {0, 49, 50, 51, 54, 55, 99, 1000}

InitDocument ==
    /\ cfg = GatewayTestConfig
    /\ cluster = EmptyCluster
    /\ cluster0 = EmptyCluster
    /\ pc = "generate_document"
    /\ i = 0
    /\ result = OkUnit
    /\ next_start = 1
    /\ stream_done = FALSE
    /\ in_progress = {}
    /\ results = <<>>
    /\ calls = <<>>
    /\ response = NoResponse
    /\ generated = NotGenerated
    /\ host = "loop"
    /\ other = NoOther

GenerateDocument ==
    /\ pc = "generate_document"
    /\ \E key \in DocumentKeys, target_size \in TargetSizes,
          num_attributes \in 0..MaxAttributes :
          generated' =
              [called |-> TRUE, key |-> key, target_size |-> target_size,
               num_attributes |-> num_attributes,
               doc |-> generate_document(key, target_size, num_attributes)]
    /\ UNCHANGED <<other, host, cfg, cluster, cluster0, pc, i, result, sched,
                   calls, response>>

NextDocument == GenerateDocument

SpecDocument == InitDocument /\ [][NextDocument]_vars

\* ================================================================ claims
\* ------------------------------------------------ vocabulary of the claims
IsPrefix(s, t) == Len(s) <= Len(t) /\ \A k \in DOMAIN s : s[k] = t[k]

OpOf(call) == <<call.op, call.coll>>
OpsOf(cs) == [k \in DOMAIN cs |-> OpOf(cs[k])]
IsInsert(call) == call.op = "insert_documents"
IsSetup(call) == ~IsInsert(call)

\* the calls of the run without the batch requests, as <<operation, collection>>
SetupOps == OpsOf(SelectSeq(calls, IsSetup))

CountOp(op) == Cardinality({k \in DOMAIN calls : calls[k].op = op})

ProbeDb == <<"database_exists", "">>
ProbeColl(k) == <<"collection_exists", coll_name(k)>>
DropDb == <<"drop_database", "">>
CreateDb == <<"create_database", "">>
CreateColl(k) == <<"create_collection", coll_name(k)>>
ProbeColls(n) == [k \in 1..n |-> ProbeColl(k)]
CreateColls(n) == [k \in 1..n |-> CreateColl(k)]

CollNames(n) == {coll_name(k) : k \in 1..n}

HadDatabase == HasDatabase(cluster0, DbName)
HadCollection(k) == HasCollection(cluster0, DbName, coll_name(k))

\* every existence probe issued so far got the answer the cluster's state
\* dictates (2xx for what exists, 404 for what does not)
ProbesTruthful ==
    \A k \in DOMAIN calls :
        /\ calls[k].op = "database_exists" =>
             calls[k].res = (IF HadDatabase THEN "true" ELSE "false")
        /\ calls[k].op = "collection_exists" =>
             calls[k].res =
                (IF HasCollection(cluster0, DbName, calls[k].coll)
                 THEN "true" ELSE "false")

ReturnedOk == pc = "returned" /\ result.ok

\* the batch requests sent into collection c, in the order sent
Sends(c) ==
    LET Into(call) == IsInsert(call) /\ call.coll = c
        sel == SelectSeq(calls, Into)
    IN [k \in DOMAIN sel |-> sel[k].batch]

\* the keys of the documents collection c of the workload database holds
StoredKeys(c) == {doc_key(k) : k \in StoredIndices(cluster, DbName, c)}

\* ------------------------------------------------------------------ C1
\* C1: idempotence of reconciliation.  When the run finds the database with
\* all of c1..cN, drop_first is false and the existence probes are answered
\* truthfully, the calls of the run are the database probe and the probes of
\* c1..cN in order and nothing else (no create, drop or insert call), the
\* cluster stays as found, and the run returns Ok(true) after exactly N + 1
\* probes; for N = 0 after the database probe alone.
C1_Complete ==
    /\ ~cfg.drop_first
    /\ HadDatabase
    /\ \A k \in 1..N : HadCollection(k)

C1_Idempotent ==
    (C1_Complete /\ ProbesTruthful) =>
        /\ IsPrefix(OpsOf(calls), <<ProbeDb>> \o ProbeColls(N))
        /\ cluster = cluster0
        /\ pc \in {"database_exists", "collection_exists", "returned"}
        /\ pc = "returned" => result = Ok(TRUE) /\ Len(calls) = N + 1

C1_Witness ==
    /\ C1_Complete /\ ProbesTruthful
    /\ N = 2 /\ D > 0
    /\ \A k \in 1..N : StoredIndices(cluster0, DbName, coll_name(k)) = 1..D
    /\ pc = "returned" /\ result = Ok(TRUE)
    /\ OpsOf(calls) = <<ProbeDb, ProbeColl(1), ProbeColl(2)>>

\* ------------------------------------------------------------------ C2
\* C2: drop-first semantics.  When the run finds the database (the probe
\* answers 2xx) and drop_first is true, no collection is ever probed, the
\* call after the probe is drop_database and the call after a successful
\* drop is create_database, and there is never a second drop or a second
\* create: a run that gets past the create has issued exactly one drop
\* followed by exactly one create, whatever collections the database had.
C2_DropFirst == cfg.drop_first /\ HadDatabase /\ ProbesTruthful

C2_DropThenCreate ==
    C2_DropFirst =>
        /\ CountOp("collection_exists") = 0
        /\ CountOp("drop_database") <= 1
        /\ CountOp("create_database") <= 1
        /\ Len(calls) = 1 => pc = "drop_database"
        /\ Len(calls) >= 2 => OpOf(calls[2]) = DropDb
        /\ Len(calls) = 2 /\ calls[2].res = "true" => pc = "create_database"
        /\ Len(calls) >= 3 =>
              /\ calls[2].res = "true"
              /\ OpOf(calls[3]) = CreateDb
              /\ CountOp("drop_database") = 1
              /\ CountOp("create_database") = 1

C2_Witness ==
    /\ C2_DropFirst
    /\ N = 2
    /\ DOMAIN cluster0[DbName] = {coll_name(2)}
    /\ ReturnedOk
    /\ CountOp("drop_database") = 1 /\ CountOp("create_database") = 1

\* ------------------------------------------------------------------ C3
\* C3: partial-topology repair.  With drop_first false, the database found
\* with c1..ck and without c(k+1), k < N, and the probes answered
\* truthfully, the run probes c1..c(k+1) in order and no later collection,
\* then drops the database, creates it and creates c1..cN in order; a
\* collection is created only after the drop and the create of the database
\* succeeded, and a run that returns Ok returns false and leaves exactly
\* c1..cN, each holding what this run inserted.
FirstMissing ==
    CHOOSE k \in 1..N : ~HadCollection(k) /\ \A j \in 1..(k - 1) : HadCollection(j)

C3_Partial ==
    /\ ~cfg.drop_first
    /\ HadDatabase
    /\ \E k \in 1..N : ~HadCollection(k)

C3_Expected ==
    <<ProbeDb>> \o ProbeColls(FirstMissing) \o <<DropDb, CreateDb>> \o CreateColls(N)

C3_Repair ==
    (C3_Partial /\ ProbesTruthful) =>
        /\ IsPrefix(SetupOps, C3_Expected)
        /\ \A p \in DOMAIN calls :
              calls[p].op = "create_collection" =>
                  \E q, r \in 1..(p - 1) :
                      /\ q < r
                      /\ OpOf(calls[q]) = DropDb /\ calls[q].res = "true"
                      /\ OpOf(calls[r]) = CreateDb /\ calls[r].res = "true"
        /\ ReturnedOk =>
              /\ result = Ok(FALSE)
              /\ SetupOps = C3_Expected
              /\ DOMAIN cluster[DbName] = CollNames(N)
              /\ \A k \in 1..N :
                    cluster[DbName][coll_name(k)] = Range(Sends(coll_name(k)))

C3_Witness ==
    /\ C3_Partial /\ ProbesTruthful
    /\ N = 2 /\ D > BATCH_SIZE
    /\ DOMAIN cluster0[DbName] = {coll_name(1)}
    /\ cluster0[DbName][coll_name(1)] # {}
    /\ ReturnedOk
    /\ SetupOps = <<ProbeDb, ProbeColl(1), ProbeColl(2), DropDb, CreateDb,
                    CreateColl(1), CreateColl(2)>>

\* ------------------------------------------------------------------ C4
\* C4: fresh-cluster creation.  For every N >= 0, a run that does not find
\* the database issues, besides the batch requests, the database probe,
\* create_database once (no drop, no collection probe) and create_collection
\* for c1, c2, ... in increasing order; a run that returns Ok has created
\* exactly c1..cN; and a batch request into ci is sent only after
\* create_collection(ci) has returned Ok.
C4_Expected == <<ProbeDb, CreateDb>> \o CreateColls(N)

C4_FreshCreate ==
    ~HadDatabase =>
        /\ IsPrefix(SetupOps, C4_Expected)
        /\ ReturnedOk =>
              /\ SetupOps = C4_Expected
              /\ DOMAIN cluster[DbName] = CollNames(N)
        /\ \A p \in DOMAIN calls :
              IsInsert(calls[p]) =>
                  \E q \in 1..(p - 1) :
                      /\ calls[q].op = "create_collection"
                      /\ calls[q].coll = calls[p].coll
                      /\ calls[q].res = "true"

C4_Witness ==
    /\ ~HadDatabase
    /\ N = 2 /\ D > BATCH_SIZE
    /\ ReturnedOk
    /\ SetupOps = C4_Expected
    /\ Len(Sends(coll_name(1))) > 1 /\ Len(Sends(coll_name(2))) > 1

\* ------------------------------------------------------------------ C5
\* C5 as stated: no batch request into any collection is issued before
\* create_collection has been called for every one of c1..cN.
C5_CreateAllThenPopulate ==
    \A p \in DOMAIN calls :
        IsInsert(calls[p]) =>
            \A k \in 1..N : \E q \in 1..(p - 1) : OpOf(calls[q]) = CreateColl(k)

\* C5 as amended: on the Create path the database is created first, then
\* for i = 1..N in sequence ci is created and populated before c(i+1) is
\* created.  Every batch request into ci directly follows the successful
\* create_collection(ci) or another batch request into ci (so it comes after
\* the creation of ci and before any other Gateway call);
\* create_collection is called only after create_database returned Ok, for
\* c1, c2, ... in this order, and for c(i+1) only once every batch of ci has
\* been sent.
C5_CreateEachThenPopulate ==
    /\ \A p \in DOMAIN calls :
          IsInsert(calls[p]) =>
              /\ p > 1
              /\ calls[p - 1].coll = calls[p].coll
              /\ \/ IsInsert(calls[p - 1])
                 \/ calls[p - 1].op = "create_collection" /\ calls[p - 1].res = "true"
    /\ \A p \in DOMAIN calls :
          calls[p].op = "create_collection" =>
              \E q \in 1..(p - 1) : OpOf(calls[q]) = CreateDb /\ calls[q].res = "true"
    /\ LET IsCreate(call) == call.op = "create_collection" IN
          IsPrefix(OpsOf(SelectSeq(calls, IsCreate)), CreateColls(N))
    /\ \A k \in 1..(N - 1) :
          (\E p \in DOMAIN calls : OpOf(calls[p]) = CreateColl(k + 1)) =>
              Sends(coll_name(k)) = batches(D)

C5_Witness ==
    /\ N = 2 /\ D > BATCH_SIZE
    /\ ReturnedOk
    /\ \E p, q, r \in DOMAIN calls :
          /\ p < q /\ q < r
          /\ IsInsert(calls[p]) /\ calls[p].coll = coll_name(1)
          /\ OpOf(calls[q]) = CreateColl(2)
          /\ IsInsert(calls[r]) /\ calls[r].coll = coll_name(2)

\* ------------------------------------------------------------------ C6
\* insert_documents for collection c was entered and has returned
InsertReturned(c) ==
    /\ \E q \in DOMAIN calls :
          OpOf(calls[q]) = <<"create_collection", c>> /\ calls[q].res = "true"
    /\ ~(pc = "insert_documents" /\ coll_name(i) = c)

\* the most recent insert_documents call has returned; `results` are its
\* batch results
LastInsertReturned ==
    /\ pc # "insert_documents"
    /\ calls # <<>>
    /\ LET last == calls[Len(calls)] IN
          IsInsert(last) \/ (last.op = "create_collection" /\ last.res = "true")

Failed(rs) == {k \in DOMAIN rs : ~rs[k].ok}

\* C6: drain without cancellation or retry.  The batch requests sent into a
\* collection are at every moment the first batches of the partition, each
\* once (none is sent again); every batch sent is outstanding or has its
\* result collected (none is aborted); a failure already collected does not
\* keep the next queued batch from being started when a slot is free; and
\* when insert_documents has returned, with or without failures, every batch
\* of the partition has been sent once, none is outstanding and every result
\* has been collected.
C6_Drain ==
    /\ \A k \in 1..N :
          LET sent == Sends(coll_name(k)) IN
          /\ IsPrefix(sent, batches(D))
          /\ InsertReturned(coll_name(k)) => sent = batches(D)
    /\ pc = "insert_documents" =>
          LET sent == Sends(coll_name(i)) IN
          /\ Len(results) + Cardinality(in_progress) = Len(sent)
          /\ in_progress \subseteq Range(sent)
          /\ (/\ Failed(results) # {}
              /\ next_start <= D
              /\ Cardinality(in_progress) < cfg.insert_concurrency)
             => ENABLED StartBatch
    /\ pc # "insert_documents" => in_progress = {}
    /\ LastInsertReturned => Len(results) = Len(batches(D))

C6_Witness ==
    /\ D > BATCH_SIZE
    /\ cfg.insert_concurrency = 1
    /\ LastInsertReturned
    /\ Failed(results) = {1}
    /\ results[1].err.batch = 1
    /\ Sends(coll_name(1)) = batches(D)
    /\ Len(results) = Len(batches(D))
    /\ pc = "returned" /\ ~result.ok

\* ------------------------------------------------------------------ C7
\* C7: failure reporting.  When insert_documents has returned, it returned
\* Ok (the run went on to the next collection or returned Ok(false)) if and
\* only if every batch result is Ok; otherwise the run returned the error of
\* the failed batch that comes first in `results`, the order in which the
\* results were collected, whatever the sequence index of that batch.
C7_FirstFailure ==
    LastInsertReturned =>
        /\ Failed(results) = {} => ~(pc = "returned" /\ ~result.ok)
        /\ Failed(results) # {} =>
              /\ pc = "returned"
              /\ \E k \in Failed(results) :
                    /\ \A j \in Failed(results) : k <= j
                    /\ result = results[k]

\* the first failure collected is not the failed batch of lowest index
C7_Witness ==
    /\ LastInsertReturned
    /\ Len(results) >= 2
    /\ ~results[1].ok /\ ~results[2].ok
    /\ results[1].err.batch > results[2].err.batch
    /\ pc = "returned" /\ result = results[1]

\* ------------------------------------------------------------------ C8
\* C8: bounded concurrency with lazy generation.  While insert_documents
\* runs, the batches started and not finished are the batches sent whose
\* result has not been collected, and they are at most insert_concurrency;
\* the batches sent so far are the first batches of the partition in
\* increasing index order; and the iterator stands right after the last
\* batch sent (no batch is pulled ahead of a free slot).
C8_Bounded ==
    pc = "insert_documents" =>
        LET sent == Sends(coll_name(i)) IN
        /\ Cardinality(in_progress) <= cfg.insert_concurrency
        /\ Cardinality(in_progress) = Len(sent) - Len(results)
        /\ IsPrefix(sent, batches(D))
        /\ \A j \in 1..(Len(sent) - 1) : sent[j][1] < sent[j + 1][1]
        /\ next_start = 1 + BATCH_SIZE * Len(sent)

\* the pool is full while a batch waits in the queue
C8_Witness ==
    /\ pc = "insert_documents"
    /\ cfg.insert_concurrency = 1
    /\ Cardinality(in_progress) = 1
    /\ next_start <= D
    /\ ~ENABLED StartBatch

\* ------------------------------------------------------------------ C9
\* C9: batch partitioning.  For every document count D the batches the
\* iterator yields are the ranges [1 + 1000j, min(1000(j + 1), D)] for
\* j = 0..ceil(D / 1000) - 1: consecutive, the first starting at 1 and the
\* last ending at D (so disjoint and covering exactly 1..D), each of at most
\* 1000 indices and only the last of fewer; none for D = 0, and [1, 1000],
\* [1001, 2000], [2001, 2500] for D = 2500.
C9_Partition ==
    (pc = "insert_documents" /\ stream_done) =>
        LET b == Sends(coll_name(i))
            n == (D + 999) \div 1000
        IN  /\ Len(b) = n
            /\ \A j \in 1..n : b[j] = <<1 + 1000 * (j - 1), Min(1000 * j, D)>>
            /\ \A j \in 1..(n - 1) : b[j + 1][1] = b[j][2] + 1
            /\ n > 0 => b[1][1] = 1 /\ b[n][2] = D
            /\ \A j \in 1..n :
                  /\ b[j][1] <= b[j][2]
                  /\ b[j][2] - b[j][1] + 1 <= 1000
                  /\ j < n => b[j][2] - b[j][1] + 1 = 1000
            /\ UNION {batch_indices(b[j]) : j \in 1..n} = 1..D
            /\ D = 0 => b = <<>>
            /\ D = 2500 => b = <<<<1, 1000>>, <<1001, 2000>>, <<2001, 2500>>>>

C9_Witness ==
    /\ D = 2500
    /\ pc = "insert_documents" /\ stream_done
    /\ Sends(coll_name(1)) = <<<<1, 1000>>, <<1001, 2000>>, <<2001, 2500>>>>

\* ----------------------------------------------------------------- C10
RECURSIVE SumOver(_, _)
SumOver(S, f) ==
    IF S = {} THEN 0
    ELSE LET x == CHOOSE y \in S : TRUE IN f[x] + SumOver(S \ {x}, f)

\* the number of documents the workload database holds
TotalDocuments ==
    SumOver(DOMAIN cluster[DbName],
            [c \in DOMAIN cluster[DbName] |->
                Cardinality(StoredIndices(cluster, DbName, c))])

\* C10: end state of a successful fresh run.  A run that found an empty
\* cluster and returned Ok (no Gateway call of it failed) returned false and
\* leaves exactly one database, named prefix + "crud", with exactly the
\* collections c1..cN, each holding exactly the D documents of keys K1..KD,
\* N * D documents in all; with N = 2 and D = 10 that is the database
\* "t_crud", the collections "c1" and "c2" and 20 documents.
C10_FreshRun ==
    (cluster0 = EmptyCluster /\ ReturnedOk) =>
        /\ result = Ok(FALSE)
        /\ DOMAIN cluster = {cfg.prefix \o "crud"}
        /\ DOMAIN cluster[DbName] = CollNames(N)
        /\ \A k \in 1..N :
              /\ StoredKeys(coll_name(k)) = {doc_key(j) : j \in 1..D}
              /\ Cardinality(StoredKeys(coll_name(k))) = D
        /\ TotalDocuments = N * D
        /\ (cfg.prefix = "t_" /\ N = 2 /\ D = 10) =>
              /\ DOMAIN cluster = {"t_crud"}
              /\ DOMAIN cluster["t_crud"] = {"c1", "c2"}
              /\ StoredKeys("c1") =
                    {"K1", "K2", "K3", "K4", "K5", "K6", "K7", "K8", "K9", "K10"}
              /\ StoredKeys("c2") = StoredKeys("c1")
              /\ TotalDocuments = 20

C10_Witness ==
    /\ cluster0 = EmptyCluster /\ ReturnedOk
    /\ cfg.prefix = "t_" /\ N = 2 /\ D = 10 /\ cfg.insert_concurrency = 2
    /\ ~cfg.drop_first
    /\ TotalDocuments = 20

\* ----------------------------------------------------------------- C11
IsProbe(call) == call.op \in {"database_exists", "collection_exists"}

\* the most recent Gateway call is an existence probe; `response` is the
\* response it got
LastIsProbe == calls # <<>> /\ IsProbe(calls[Len(calls)])

LastIs(op) == calls # <<>> /\ calls[Len(calls)].op = op
LastCall == calls[Len(calls)]

\* the response came with a status and its body
Complete(resp) == ~resp.transport /\ ~resp.body_error

\* C12: create outcome mapping.  For every response that comes with a
\* status and a body, create_database and create_collection return Ok on a
\* 2xx status, DatabaseExists / CollectionExists with the requested name
\* exactly when the status is 409 and the body contains "duplicate", and
\* InvalidResponse with the status and the body on every other non-success
\* status, a 409 without the marker included.  So creating the same database
\* twice in a row, the cluster answering truthfully, yields Ok and then
\* DatabaseExists(name), and creating the database of empty name yields
\* InvalidResponse, never Ok, DatabaseExists, DatabaseNotFound or
\* CollectionExists.
C12_CreateOutcome ==
    /\ (LastIs("create_database") \/ LastIs("create_collection")) =>
          LET name == IF LastCall.op = "create_database"
                      THEN LastCall.db ELSE LastCall.coll
              exists == IF LastCall.op = "create_database"
                        THEN DatabaseExists(name) ELSE CollectionExists(name)
              marked == response.status = 409 /\ contains(response.text, "duplicate")
          IN  /\ Complete(response) =>
                    /\ result.ok <=> (response.status \in 200..299)
                    /\ result = Err(exists) <=> marked
                    /\ (~result.ok /\ ~marked) =>
                          result = Err(InvalidResponse(response.status, response.text))
              /\ result.err.kind \in
                    {"", exists.kind, "InvalidResponse", "RequestError"}
              /\ result.err.kind = exists.kind => result.err.name = name
    /\ (/\ Len(calls) >= 2
        /\ LastIs("create_database")
        /\ calls[Len(calls) - 1].op = "create_database"
        /\ calls[Len(calls) - 1].db = LastCall.db
        /\ calls[Len(calls) - 1].res = "true"
        /\ response = ServerCreateDatabase(cluster, LastCall.db).resp)
       => result = Err(DatabaseExists(LastCall.db))
    /\ (/\ LastIs("create_database")
        /\ LastCall.db = ""
        /\ response = ServerCreateDatabase(cluster, "").resp)
       => /\ ~result.ok
          /\ result.err.kind = "InvalidResponse"

\* the same database created twice in a row: Ok, then DatabaseExists
C12_Witness ==
    /\ Len(calls) = 2
    /\ calls[1].op = "create_database" /\ calls[1].res = "true"
    /\ LastIs("create_database") /\ LastCall.db = calls[1].db
    /\ response = Http(409, "duplicate name")
    /\ result = Err(DatabaseExists("test_db_creation"))

\* ----------------------------------------------------------------- C13
\* C13: drop outcome mapping.  For every response that comes with a status
\* and a body, drop_database returns Ok on a 2xx status, DatabaseNotFound
\* with the requested name exactly when the status is 404, and
\* InvalidResponse with the status and the body on every other non-success
\* status.  So, the cluster answering truthfully, dropping a database that
\* does not exist (never created, or dropped by the call before) yields
\* DatabaseNotFound(name), and dropping an existing database twice in a row
\* yields Ok and then DatabaseNotFound(name).
C13_DropOutcome ==
    /\ LastIs("drop_database") =>
          /\ Complete(response) =>
                /\ result.ok <=> (response.status \in 200..299)
                /\ result = Err(DatabaseNotFound(LastCall.db))
                      <=> response.status = 404
                /\ (~result.ok /\ response.status # 404) =>
                      result = Err(InvalidResponse(response.status, response.text))
          /\ result.err.kind \in
                {"", "DatabaseNotFound", "InvalidResponse", "RequestError"}
    /\ (/\ LastIs("drop_database")
        /\ response = ServerDropDatabase(cluster, LastCall.db).resp
        /\ \/ Len(calls) = 1 /\ ~HasDatabase(cluster0, LastCall.db)
           \/ /\ Len(calls) >= 2
              /\ calls[Len(calls) - 1].op = "drop_database"
              /\ calls[Len(calls) - 1].db = LastCall.db
              /\ calls[Len(calls) - 1].res = "true")
       => result = Err(DatabaseNotFound(LastCall.db))
    /\ (/\ Len(calls) = 1
        /\ LastIs("drop_database")
        /\ HasDatabase(cluster0, LastCall.db)
        /\ ~HasDatabase(cluster, LastCall.db))
       => result.ok

\* an existing database dropped twice in a row: Ok, then DatabaseNotFound
C13_Witness ==
    /\ Len(calls) = 2
    /\ HasDatabase(cluster0, "test_db_creation")
    /\ calls[1].op = "drop_database" /\ calls[1].res = "true"
    /\ LastIs("drop_database") /\ LastCall.db = calls[1].db
    /\ response.status = 404 /\ Complete(response)
    /\ result = Err(DatabaseNotFound("test_db_creation"))

\* ----------------------------------------------------------------- C14
IsMutation(call) ==
    call.op \in {"drop_database", "create_database", "create_collection"}

\* what the Gateway function of the most recent call returned
LastReturned ==
    CASE LastCall.op = "drop_database" -> drop_database(response, DbName)
      [] LastCall.op = "create_database" -> create_database(response, DbName)
      [] LastCall.op = "create_collection" ->
            create_collection(response, LastCall.coll)
      [] OTHER -> result

\* C14: Gateway errors are fatal.  A drop_database, create_database or
\* create_collection call that returned an error is the last Gateway call of
\* the run, and the run has returned that very error; when insert_documents
\* has returned with a failed batch, the run has returned the error
\* insert_documents returned, and the last Gateway call is a batch request of
\* that population (no later collection is created or populated, nothing is
\* dropped or retried); a run that has returned takes no further step; and
\* a run that returned an error has not returned Ok(true) or Ok(false).
C14_Fatal ==
    /\ \A k \in DOMAIN calls :
          (IsMutation(calls[k]) /\ calls[k].res = "err") =>
              /\ k = Len(calls)
              /\ pc = "returned"
              /\ ~result.ok
              /\ result = LastReturned
    /\ (LastInsertReturned /\ Failed(results) # {}) =>
          /\ pc = "returned"
          /\ ~result.ok
          /\ result = collect_results(results)
          /\ IsInsert(LastCall)
          /\ \A k \in DOMAIN calls :
                OpOf(calls[k]) = <<"create_collection", LastCall.coll>> =>
                    \A j \in (k + 1)..Len(calls) :
                        IsInsert(calls[j]) /\ calls[j].coll = LastCall.coll
    /\ pc = "returned" => ~ENABLED Next
    /\ (pc = "returned" /\ ~result.ok) => result \notin {Ok(TRUE), Ok(FALSE)}

\* the population of c1 failed: c2 was never created
C14_Witness ==
    /\ N = 2 /\ D > BATCH_SIZE
    /\ LastInsertReturned /\ Failed(results) # {}
    /\ LastCall.coll = coll_name(1)
    /\ pc = "returned" /\ ~result.ok
    /\ CountOp("create_collection") = 1
    /\ ~HasCollection(cluster, DbName, coll_name(2))

\* ----------------------------------------------------------------- C15
\* C15: zero-attribute edge case.  generate_document called with
\* num_attributes = 0 does not panic on a division by zero: for every key and
\* target size it returns a document with the fixed fields _key, number and
\* bool and no string attribute.
C15_ZeroAttributes ==
    (generated.called /\ generated.num_attributes = 0) =>
        /\ ~generated.doc.panic
        /\ generated.doc.key = doc_key(generated.key)
        /\ generated.doc.fixed = {"_key", "number", "bool"}
        /\ DOMAIN generated.doc.attrs = {}

\* ----------------------------------------------------------------- C16
\* the sequence indices of the documents sent into collection c so far
SentIndices(c) == UNION {batch_indices(b) : b \in Range(Sends(c))}

\* the population of the current collection has sent every batch and every
\* request has been answered
PopulationSent ==
    pc = "insert_documents" /\ stream_done /\ in_progress = {}

\* the number of documents the batches of a sequence carry
RECURSIVE DocumentsIn(_)
DocumentsIn(bs) ==
    IF bs = <<>> THEN 0
    ELSE Cardinality(batch_indices(Head(bs))) + DocumentsIn(Tail(bs))

\* C16: key uniqueness.  Under every interleaving, the batches sent into the
\* collection being populated are non-empty ranges within 1..D, each lying
\* wholly after the one sent before it, so no sequence index is in two
\* batches; when every batch has been sent and answered, the indices sent
\* are exactly 1..D, each in exactly one document (as many documents as
\* indices); the _key of the document of index j is "K" followed by the
\* decimal digits of j, and the documents of the population have pairwise
\* different keys (as many keys as documents).
C16_UniqueKeys ==
    /\ pc = "insert_documents" =>
          LET sent == Sends(coll_name(i)) IN
          /\ \A p \in DOMAIN sent :
                1 <= sent[p][1] /\ sent[p][1] <= sent[p][2] /\ sent[p][2] <= D
          /\ \A p, q \in DOMAIN sent : p < q => sent[p][2] < sent[q][1]
          /\ \A p, q \in DOMAIN sent :
                p # q => batch_indices(sent[p]) \cap batch_indices(sent[q]) = {}
    /\ PopulationSent =>
          LET idx == SentIndices(coll_name(i))
              keys == {doc_key(j) : j \in idx}
          IN  /\ idx = 1..D
              /\ DocumentsIn(Sends(coll_name(i))) = D
              /\ Cardinality(keys) = D
              /\ D >= 10 => {"K1", "K2", "K9", "K10"} \subseteq keys
              /\ D >= 1500 => {"K999", "K1000", "K1001", "K1500"} \subseteq keys
              /\ "K0" \notin keys

\* two batches were outstanding together and both have been answered
C16_Witness ==
    /\ PopulationSent
    /\ cfg.insert_concurrency = 2
    /\ D > BATCH_SIZE
    /\ Len(Sends(coll_name(i))) = 2
    /\ Len(results) = 2

\* ----------------------------------------------------------------- C17
\* this run has created the database
DatabaseCreated ==
    \E k \in DOMAIN calls : OpOf(calls[k]) = CreateDb /\ calls[k].res = "true"

\* the collections this run has created
CreatedCollections ==
    {calls[k].coll : k \in {j \in DOMAIN calls :
        calls[j].op = "create_collection" /\ calls[j].res = "true"}}

\* the batches of collection c whose request succeeded: of the population
\* under way or last finished, the batches sent that are neither outstanding
\* nor failed; of an earlier population, every batch sent
SucceededBatches(c) ==
    IF LastCall.coll = c
    THEN {b \in Range(Sends(c)) :
            /\ b \notin in_progress
            /\ \A k \in Failed(results) : results[k].err.batch # b[1]}
    ELSE Range(Sends(c))

\* the run has returned the error of a failed population
PopulationFailed ==
    /\ pc = "returned" /\ ~result.ok
    /\ LastInsertReturned /\ Failed(results) # {}

\* C17: no rollback across batches.  From the moment this run has created
\* the database, and in particular when insert_documents and hence the run
\* have reported failure, the database is in the cluster, its collections
\* are exactly the collections the run has created so far, each collection
\* holds exactly the documents of its batches that succeeded (all of 1..D for
\* a collection populated earlier), and no drop_database call follows the
\* creation of the database.
C17_NoRollback ==
    DatabaseCreated =>
        /\ HasDatabase(cluster, DbName)
        /\ DOMAIN cluster[DbName] = CreatedCollections
        /\ \A c \in CreatedCollections :
              /\ cluster[DbName][c] = SucceededBatches(c)
              /\ StoredIndices(cluster, DbName, c)
                    = UNION {batch_indices(b) : b \in SucceededBatches(c)}
              /\ (PopulationFailed /\ c # LastCall.coll) =>
                    StoredIndices(cluster, DbName, c) = 1..D
        /\ \A k \in DOMAIN calls :
              (OpOf(calls[k]) = CreateDb /\ calls[k].res = "true") =>
                  \A j \in (k + 1)..Len(calls) :
                      calls[j].op \in {"create_collection", "insert_documents"}

\* the population of c2 failed with one batch stored: c1 and that batch stay
C17_Witness ==
    /\ N = 2 /\ D > BATCH_SIZE
    /\ PopulationFailed
    /\ LastCall.coll = coll_name(2)
    /\ Cardinality(Failed(results)) = 1
    /\ StoredIndices(cluster, DbName, coll_name(1)) = 1..D
    /\ Cardinality(cluster[DbName][coll_name(2)]) = 1

\* ----------------------------------------------------------------- C18
\* C18: workload lifecycle.  The workload's thread ends only after the
\* reconciliation returned an error; after the reconciliation returned Ok
\* (true for Reuse, false for Populated) the thread is in its idle loop, where
\* nothing but the loop itself can happen, so no further Gateway call is
\* issued and the loop is never left; and in every state, also after the
\* thread has ended with its error, the main thread is in its loop, which
\* can go on.
C18_Lifecycle ==
    /\ host = "loop" /\ ENABLED MainLoop
    /\ pc = "ended" => ~result.ok
    /\ pc = "idle" =>
          /\ result \in {Ok(TRUE), Ok(FALSE)}
          /\ ENABLED IdleLoop
          /\ ~ENABLED Next /\ ~ENABLED RunFailed /\ ~ENABLED RunIdle
    /\ pc = "ended" =>
          ~ENABLED Next /\ ~ENABLED RunFailed /\ ~ENABLED RunIdle
            /\ ~ENABLED IdleLoop
    /\ pc = "returned" => (ENABLED RunFailed <=> ~result.ok)
    /\ pc = "returned" => (ENABLED RunIdle <=> result.ok)
    /\ pc \in {"idle", "ended"} => in_progress = {}

\* the population failed, the thread has ended, main is in its loop
C18_Witness ==
    /\ pc = "ended"
    /\ ~result.ok
    /\ Failed(results) # {}
    /\ host = "loop"

\* ----------------------------------------------------------------- C19
\* the reconciler that takes the next step, as a record like `other`
Me ==
    Reconciler(3 - other.id, pc, i, result, next_start, stream_done,
               in_progress, results, calls, response)

\* reconciler r has changed the topology: a drop or a create of it succeeded
Mutated(r) ==
    \E k \in DOMAIN r.calls : IsMutation(r.calls[k]) /\ r.calls[k].res = "true"

\* every existence probe of reconciler r got the answer that the cluster
\* both reconcilers started from dictates
ProbesTruthfulOf(r) ==
    \A k \in DOMAIN r.calls :
        /\ r.calls[k].op = "database_exists" =>
             r.calls[k].res = (IF HadDatabase THEN "true" ELSE "false")
        /\ r.calls[k].op = "collection_exists" =>
             r.calls[k].res =
                (IF HasCollection(cluster0, DbName, r.calls[k].coll)
                 THEN "true" ELSE "false")

\* r's create_database or create_collection failed with AlreadyExists
CreateConflict(r) ==
    /\ r.pc = "returned"
    /\ r.result.err.kind \in {"DatabaseExists", "CollectionExists"}

\* r's drop_database failed with NotFound
DropConflict(r) ==
    /\ r.pc = "returned"
    /\ r.result.err.kind = "DatabaseNotFound"

\* the database, or the collection being populated, is gone while r is
\* creating collections or inserting
DroppedUnder(r) ==
    \/ r.pc \in {"create_collection", "insert_documents"}
          /\ ~HasDatabase(cluster, DbName)
    \/ r.pc = "insert_documents"
          /\ ~HasCollection(cluster, DbName, coll_name(r.i))

Conflict(r) == CreateConflict(r) \/ DropConflict(r) \/ DroppedUnder(r)

\* C19: no mutual exclusion between reconcilers.  With two processes
\* reconciling the same database there are interleavings in which a create
\* fails with DatabaseExists or CollectionExists, a drop fails with
\* DatabaseNotFound, or the database is dropped under a reconciler that is
\* creating collections or inserting (the states Conflict describes; the
\* witness is one of them).  None of them is reached by a reconciler while
\* the other process has changed nothing, its probes answered truthfully:
\* a reconciler on its own never meets them.
C19_NoConflictAlone ==
    /\ (~Mutated(other) /\ ProbesTruthfulOf(Me)) => ~Conflict(Me)
    /\ (~Mutated(Me) /\ ProbesTruthfulOf(other)) => ~Conflict(other)

\* one process has dropped the database while the other has a batch request
\* outstanding
C19_Witness ==
    /\ other.pc = "insert_documents"
    /\ other.in_progress # {}
    /\ ~HasDatabase(cluster, DbName)
    /\ LastIs("drop_database") /\ LastCall.res = "true"

\* the other interleavings of the claim: a create_database, a
\* create_collection and a drop_database that fail on what the other
\* process has just done
C19_DatabaseExists ==
    /\ pc = "returned" /\ result = Err(DatabaseExists(DbName))
    /\ ProbesTruthfulOf(Me) /\ Mutated(other)

C19_CollectionExists ==
    /\ pc = "returned" /\ result = Err(CollectionExists(coll_name(1)))
    /\ ProbesTruthfulOf(Me) /\ Mutated(other)

C19_DatabaseNotFound ==
    /\ pc = "returned" /\ result = Err(DatabaseNotFound(DbName))
    /\ ProbesTruthfulOf(Me) /\ Mutated(other)

\* ----------------------------------------------------------------- C20
\* the names a1 .. an
FillerNames(n) == {"a" \o Decimal(k) : k \in 1..n}

\* max(0, t - 50)
Remaining(t) == IF t - 50 > 0 THEN t - 50 ELSE 0

\* q is the floor of a / n
IsFloorOf(q, a, n) == q * n <= a /\ a < (q + 1) * n

\* C20: filler sizing.  For num_attributes >= 1 generate_document returns
\* a document with _key, number, bool and exactly num_attributes filler
\* fields a1 .. a{num_attributes}, each of length
\* floor(max(0, target_size - 50) / num_attributes); below target_size 50
\* the subtraction saturates at 0 and the filler strings are empty; and
\* (target_size, num_attributes) = (1000, 5) gives length 190.
C20_FillerSizing ==
    (generated.called /\ generated.num_attributes >= 1) =>
        LET t == generated.target_size
            n == generated.num_attributes
            doc == generated.doc
        IN  /\ ~doc.panic
            /\ doc.fixed = {"_key", "number", "bool"}
            /\ DOMAIN doc.attrs = FillerNames(n)
            /\ Cardinality(DOMAIN doc.attrs) = n
            /\ \A a \in DOMAIN doc.attrs :
                   /\ doc.attrs[a] >= 0
                   /\ IsFloorOf(doc.attrs[a], Remaining(t), n)
                   /\ t < 50 => doc.attrs[a] = 0
                   /\ (t = 1000 /\ n = 5) => doc.attrs[a] = 190

\* generate_document(.., 1000, 5) has returned five fillers of length 190
C20_Witness ==
    /\ generated.called
    /\ generated.target_size = 1000 /\ generated.num_attributes = 5
    /\ DOMAIN generated.doc.attrs = {"a1", "a2", "a3", "a4", "a5"}
    /\ generated.doc.attrs["a5"] = 190

\* a target size below 50 with three attributes: the fillers are empty
C20_Saturated ==
    /\ generated.called
    /\ generated.target_size = 49 /\ generated.num_attributes = 3
    /\ generated.doc.attrs["a3"] = 0

\* ----------------------------------------------------------------- C21
\* the run has issued drop_database
DropIssued == \E k \in DOMAIN calls : calls[k].op = "drop_database"

\* the database the run found holds all of c1 .. cN
FoundComplete == HadDatabase /\ \A k \in 1..N : HadCollection(k)

\* C21: a complete database is not dropped without drop_first.  With
\* drop_first = false the Reconciler issues drop_database only if the database
\* it found exists and at least one of c1 .. cN is absent from it; an
\* existence probe answered with a non-success status for another reason than
\* absence does not lead to the drop of a database holding all N collections.
C21_NoDropOfComplete ==
    (~cfg.drop_first /\ DropIssued) =>
        /\ HadDatabase
        /\ \E k \in 1..N : ~HadCollection(k)

\* the failing run: every collection was there, the probe of one of them was
\* answered 500, and the database is gone
C21_DroppedComplete ==
    /\ ~cfg.drop_first /\ N >= 1 /\ FoundComplete
    /\ \E k \in DOMAIN calls :
          /\ calls[k].op = "collection_exists" /\ calls[k].res = "false"
          /\ k + 1 \in DOMAIN calls /\ calls[k + 1].op = "drop_database"
          /\ calls[k + 1].res = "true"
    /\ LastIs("drop_database")
    /\ response.status = 200
    /\ ~HasDatabase(cluster, DbName)

\* ----------------------------------------------------------------- C22
\* collection ck holds all of the documents K1 .. K{D}
FullyPopulated(k) ==
    /\ HasCollection(cluster, DbName, coll_name(k))
    /\ StoredIndices(cluster, DbName, coll_name(k)) = 1..D

\* the run has returned Ok(true): the database was there and complete
Reused == pc = "returned" /\ result = Ok(TRUE)

\* C22: reuse implies a fully populated topology.  In every history of runs
\* with the same configuration and drop_first = false that starts from an
\* empty cluster, each earlier run having failed at any Gateway call or
\* not, a run returns true only when every collection c1 .. cN holds all
\* the documents K1 .. K{D}; a run that failed while populating cN is not
\* treated as complete by a later run.
C22_ReuseIsPopulated ==
    Reused => \A k \in 1..N : FullyPopulated(k)

\* the failing history: a run returns true, every probe answered truthfully,
\* and the last collection holds none of its documents
C22_ReusedUnpopulated ==
    /\ Reused
    /\ ProbesTruthful
    /\ D > 0
    /\ \A k \in 1..N : HasCollection(cluster, DbName, coll_name(k))
    /\ StoredIndices(cluster, DbName, coll_name(N)) = {}

\* ----------------------------------------------------------------- C23
\* insert_documents has returned, to the collection loop or out of the run
InsertDocumentsReturned == pc # "insert_documents"

\* C23: termination of population.  Every request that is sent getting its
\* response, insert_documents eventually returns, for every document count
\* and every insert_concurrency of the configuration, 0 included.
C23_Terminates == <>InsertDocumentsReturned

\* with a concurrency of at least one insert_documents does return
C23_TerminatesWithSlot ==
    (cfg.insert_concurrency >= 1) => <>InsertDocumentsReturned

\* the failing run: insert_concurrency = 0, nothing was sent, nothing is
\* outstanding, and no step of insert_documents is possible
C23_Stuck ==
    /\ pc = "insert_documents"
    /\ cfg.insert_concurrency = 0
    /\ in_progress = {} /\ ~stream_done /\ results = <<>>
    /\ ~ENABLED NextInsert

\* ----------------------------------------------------------------- C24
\* the batches the iterator has yielded, in order
Yielded == [k \in DOMAIN calls |-> calls[k].batch]

\* from the start the iterator stood at, the batches yielded cover every
\* index up to num_documents exactly once
CoversTail ==
    /\ \A k \in DOMAIN Yielded :
          /\ u32_le(Yielded[k][1], Yielded[k][2])
          /\ u32_le(Yielded[k][2], D)
          /\ k > 1 =>
                LET after == overflowing_add(Yielded[k - 1][2], U32(1)) IN
                ~after.overflow /\ Yielded[k][1] = after.val
    /\ stream_done =>
          IF u32_le(U32(1), D)
          THEN Yielded # <<>> /\ Yielded[Len(Yielded)][2] = D
          ELSE Yielded = <<>>

\* the greatest start any iterator yields: the greatest u32 that is 1 more
\* than a multiple of BATCH_SIZE
GreatestStart ==
    overflowing_sub(U32Max, U32(u32_rem_batch(U32Max) - 1)).val

\* the document counts whose last batch starts at GreatestStart
NearU32Max == u32_le(GreatestStart, D)

\* C24: no overflow in the batch bounds.  For every document count a u32
\* holds, those within 1000 of 2^32 - 1 included, the end of a batch
\* min(start + 1000 - 1, num_documents) is computed without overflow or
\* wrap-around: every batch has start <= end <= num_documents and the
\* batches cover the indices up to num_documents exactly.
C24_NoOverflow ==
    /\ pc # "panicked"
    /\ CoversTail

\* below GreatestStart the bounds are right, and where the numbers are
\* small they are those of batch_end
C24_NoOverflowBelow ==
    ~NearU32Max =>
        /\ C24_NoOverflow
        /\ D[1] = 0 =>
              \A k \in DOMAIN Yielded :
                 Number(Yielded[k][2]) =
                    batch_end(Number(Yielded[k][1]), Number(D))

\* the failing runs: the end of the last batch has wrapped around and lies
\* below its start, or the thread has panicked on the addition
C24_Wrapped ==
    /\ D = U32Max
    /\ stream_done
    /\ Yielded # <<>>
    /\ Yielded[Len(Yielded)] = <<GreatestStart, U32(BATCH_SIZE - 1 - u32_rem_batch(U32Max))>>

C24_Panicked ==
    /\ D = U32Max
    /\ pc = "panicked"
    /\ next_start = GreatestStart

====
